---- MODULE Spec2Model ----
(***************************************************************************)
(* SmartRx (src/app.py): the Flask service with the three routes /health,  *)
(* /analyze and /validate.  One request is handled at a time; a handler is *)
(* one atomic step from the received request to the response.              *)
(*                                                                         *)
(* JSON / Python values are tagged records:                                *)
(*   [t |-> "null"]  [t |-> "str", v |-> s]  [t |-> "num", v |-> n]        *)
(*   [t |-> "list", v |-> <<...>>]  [t |-> "dict", v |-> f]                *)
(* where f is a function whose DOMAIN is the set of keys present.          *)
(* Numbers are fixed point: the integer n stands for n / Unit.             *)
(***************************************************************************)
EXTENDS Integers, Sequences, FiniteSets, TLC

VARIABLES pc, endpoint, files, upstream, data, response

vars == <<pc, endpoint, files, upstream, data, response>>

(***************************************************************************)
(* Bounds of the model.                                                    *)
(***************************************************************************)
MaxMeds == 2
MaxPad == 1
MaxClock == 2

(***************************************************************************)
(* Fixed-point scale of the numbers: n stands for n / Unit (5 decimals).   *)
(***************************************************************************)
Unit == 10 * 10 * 10 * 10 * 10

(***************************************************************************)
(* Python values                                                           *)
(***************************************************************************)
None == [t |-> "null"]
Str(s) == [t |-> "str", v |-> s]
Num(n) == [t |-> "num", v |-> n]
List(xs) == [t |-> "list", v |-> xs]
Dict(f) == [t |-> "dict", v |-> f]

\* the marker of a key left out of a generated object; never a value of a dict
Missing == [t |-> "missing"]

\* the dict with the keys of r whose value is not Missing
MakeDict(r) == Dict([k \in {j \in DOMAIN r : r[j] # Missing} |-> r[k]])

\* d.get(k): the value, None when the key is absent
Get(d, k) == IF k \in DOMAIN d.v THEN d.v[k] ELSE None

\* d.get(k, dflt)
GetDefault(d, k, dflt) == IF k \in DOMAIN d.v THEN d.v[k] ELSE dflt

\* Python truth value of x (the operand of `not`)
Truthy(x) ==
    CASE x.t = "null" -> FALSE
      [] x.t = "str" -> x.v # ""
      [] x.t = "num" -> x.v # 0
      [] x.t = "list" -> Len(x.v) > 0
      [] x.t = "dict" -> DOMAIN x.v # {}

\* len(x) is defined (str, list, dict); otherwise TypeError
HasLen(x) == x.t \in {"str", "list", "dict"}

\* str(x) as an f-string renders it
Format(x) ==
    CASE x.t = "null" -> "None"
      [] x.t = "str" -> x.v
      [] OTHER -> "?"

\* no exception raised so far
NoExc == "none"


(***************************************************************************)
(* /validate  (validate_prescription)                                      *)
(***************************************************************************)
\* 0.85, the low-confidence threshold
LowConfidence == 85 * (Unit \div 100)

\* validation_results as created, plus the exception raised so far (if any)
NewResults == [is_valid |-> TRUE, warnings |-> <<>>, errors |-> <<>>, exc |-> NoExc]

\* validation_results['warnings'].append(w)
AddWarning(vr, w) == [vr EXCEPT !.warnings = Append(@, w)]

\* AddError without the assignment to is_valid
AddErrorOnly(vr, e) == [vr EXCEPT !.errors = Append(@, e)]

\* validation_results['errors'].append(e); validation_results['is_valid'] = False
AddError(vr, e) == [vr EXCEPT !.errors = Append(@, e), !.is_valid = FALSE]

\* the statement raises: the rest of the try body is skipped
Raise(vr, e) == [vr EXCEPT !.exc = e]

CheckPatientName(d, vr) ==
    IF ~Truthy(Get(d, "patient_name"))
    THEN AddWarning(vr, "Patient name is missing")
    ELSE vr

CheckDoctorName(d, vr) ==
    IF ~Truthy(Get(d, "doctor_name"))
    THEN AddWarning(vr, "Doctor name is missing")
    ELSE vr

\* CheckMedications looking at the length alone, of a list that is there
CheckMedicationsPresentOnly(d, vr) ==
    IF "medications" \in DOMAIN d.v /\ d.v["medications"].t = "list"
       /\ Len(d.v["medications"].v) = 0
    THEN AddError(vr, "No medications found")
    ELSE vr

\* `not data.get('medications') or len(data['medications']) == 0`
CheckMedications(d, vr) ==
    LET m == Get(d, "medications") IN
    IF ~Truthy(m) THEN AddError(vr, "No medications found")
    ELSE IF ~HasLen(m) THEN Raise(vr, "TypeError")
    ELSE vr

\* the name an f-string puts after "Dosage missing for "
DosageName(med) == Format(GetDefault(med, "name", Str("unknown medication")))

\* the body of the loop over the medications, for one element
CheckMed(med, vr) ==
    IF med.t # "dict" THEN Raise(vr, "AttributeError")
    ELSE LET a == IF ~Truthy(Get(med, "name"))
                  THEN AddError(vr, "Medication name missing")
                  ELSE vr
         IN  IF ~Truthy(Get(med, "dosage"))
             THEN AddWarning(a, "Dosage missing for " \o DosageName(med))
             ELSE a

RECURSIVE MedLoop(_, _)
MedLoop(meds, vr) ==
    IF meds = <<>> \/ vr.exc # NoExc THEN vr
    ELSE MedLoop(Tail(meds), CheckMed(Head(meds), vr))

\* `for med in data.get('medications', [])`
CheckMedicationDetails(d, vr) ==
    LET m == GetDefault(d, "medications", List(<<>>)) IN
    CASE m.t = "list" -> MedLoop(m.v, vr)
      [] m.t = "str" -> IF m.v = "" THEN vr ELSE Raise(vr, "AttributeError")
      [] m.t = "dict" -> IF DOMAIN m.v = {} THEN vr ELSE Raise(vr, "AttributeError")
      [] OTHER -> Raise(vr, "TypeError")

\* CheckConfidence with <= for <
CheckConfidenceInclusive(d, vr) ==
    LET c == GetDefault(d, "confidence_score", Num(0)) IN
    IF c.t # "num" THEN Raise(vr, "TypeError")
    ELSE IF c.v <= LowConfidence
         THEN AddWarning(vr, "Low confidence score - manual review recommended")
         ELSE vr

\* `data.get('confidence_score', 0) < 0.85`
CheckConfidence(d, vr) ==
    LET c == GetDefault(d, "confidence_score", Num(0)) IN
    IF c.t # "num" THEN Raise(vr, "TypeError")
    ELSE IF c.v < LowConfidence
         THEN AddWarning(vr, "Low confidence score - manual review recommended")
         ELSE vr

\* the try body of validate_prescription, rule after rule
RunRules(d) ==
    LET r1 == CheckPatientName(d, NewResults)
        r2 == CheckDoctorName(d, r1)
        r3 == CheckMedications(d, r2)
        r4 == IF r3.exc = NoExc THEN CheckMedicationDetails(d, r3) ELSE r3
        r5 == IF r4.exc = NoExc THEN CheckConfidence(d, r4) ELSE r4
    IN  r5

\* the response of POST /validate for the JSON object d
ValidateResponse(d) ==
    LET vr == RunRules(d) IN
    IF vr.exc = NoExc
    THEN [status |-> 200,
          body |-> [is_valid |-> vr.is_valid, warnings |-> vr.warnings,
                    errors |-> vr.errors]]
    ELSE [status |-> 500,
          body |-> [error |-> "Validation failed", details |-> vr.exc]]

(***************************************************************************)
(* Text: a sequence of characters.  A JSON string or number literal is one *)
(* element (a lexical token); fence marks, letters and whitespace are      *)
(* single characters.                                                      *)
(***************************************************************************)
\* the characters str.strip() removes
WsChars == {" ", "\n", "\t", "\r", "\f"}

RECURSIVE LStrip(_)
LStrip(s) == IF s # <<>> /\ Head(s) \in WsChars THEN LStrip(Tail(s)) ELSE s

RECURSIVE RStrip(_)
RStrip(s) ==
    IF s # <<>> /\ s[Len(s)] \in WsChars THEN RStrip(SubSeq(s, 1, Len(s) - 1)) ELSE s

\* s.strip()
Strip(s) == RStrip(LStrip(s))

\* s.startswith(p), s.endswith(p)
StartsWith(s, p) == Len(s) >= Len(p) /\ SubSeq(s, 1, Len(p)) = p
EndsWith(s, p) == Len(s) >= Len(p) /\ SubSeq(s, Len(s) - Len(p) + 1, Len(s)) = p

\* s[n:], s[:-n]
DropFirst(s, n) == SubSeq(s, n + 1, Len(s))
DropLast(s, n) == SubSeq(s, 1, Len(s) - n)

\* the backquote character (a TLA+ string cannot hold it)
Backquote == "<backquote>"

Fence == <<Backquote, Backquote, Backquote>>
FenceJson == Fence \o <<"j", "s", "o", "n">>

\* StripFences cutting 6 characters for the 7 of the json fence
StripFencesShort(text) ==
    LET t0 == Strip(text)
        t1 == IF StartsWith(t0, FenceJson) THEN DropFirst(t0, 6) ELSE t0
        t2 == IF StartsWith(t1, Fence) THEN DropFirst(t1, 3) ELSE t1
        t3 == IF EndsWith(t2, Fence) THEN DropLast(t2, 3) ELSE t2
    IN  Strip(t3)

\* response_text after the strip, the three fence tests and the second strip
StripFences(text) ==
    LET t0 == Strip(text)
        t1 == IF StartsWith(t0, FenceJson) THEN DropFirst(t0, 7) ELSE t0
        t2 == IF StartsWith(t1, Fence) THEN DropFirst(t1, 3) ELSE t1
        t3 == IF EndsWith(t2, Fence) THEN DropLast(t2, 3) ELSE t2
    IN  Strip(t3)

(***************************************************************************)
(* json.loads on a text: objects, arrays, strings, numbers and null, with  *)
(* JSON whitespace between the tokens.                                     *)
(***************************************************************************)
JsonWs == {" ", "\n", "\t", "\r"}

\* the strings that occur in the payloads, and their literals
StringPool ==
    {"", "Jane", "high", "spoofed", "patient_name", "doctor_name", "medications",
     "confidence_score", "accuracy_percentage", "model_version", "analyzed_at"}
Quote(s) == "\"" \o s \o "\""
StrLits == {Quote(s) : s \in StringPool}
Unquote == [l \in StrLits |-> CHOOSE s \in StringPool : Quote(s) = l]

\* the number literals that occur in the payloads, and the numbers they denote
NumLit ==
    ("0" :> 0) @@ ("0.12345" :> 12345) @@ ("0.5" :> 50 * (Unit \div 100))
    @@ ("0.85" :> 85 * (Unit \div 100)) @@ ("0.99995" :> 99995) @@ ("1" :> Unit)
    @@ ("1.5" :> 150 * (Unit \div 100)) @@ ("-0.2" :> (0 - 20) * (Unit \div 100))
    @@ ("99.9" :> 9990 * (Unit \div 100))

Fail == [ok |-> FALSE, val |-> None, next |-> 0]
Parsed(v, n) == [ok |-> TRUE, val |-> v, next |-> n]

RECURSIVE SkipWs(_, _)
SkipWs(ts, i) == IF i <= Len(ts) /\ ts[i] \in JsonWs THEN SkipWs(ts, i + 1) ELSE i

RECURSIVE ParseValue(_, _)
RECURSIVE ParseMembers(_, _, _)
RECURSIVE ParseElements(_, _, _)

\* the value that starts at (or after whitespace from) position i
ParseValue(ts, i) ==
    LET j == SkipWs(ts, i) IN
    IF j > Len(ts) THEN Fail
    ELSE CASE ts[j] = "{" ->
                LET k == SkipWs(ts, j + 1) IN
                IF k <= Len(ts) /\ ts[k] = "}" THEN Parsed(Dict(<<>>), k + 1)
                ELSE ParseMembers(ts, k, <<>>)
           [] ts[j] = "[" ->
                LET k == SkipWs(ts, j + 1) IN
                IF k <= Len(ts) /\ ts[k] = "]" THEN Parsed(List(<<>>), k + 1)
                ELSE ParseElements(ts, k, <<>>)
           [] ts[j] = "null" -> Parsed(None, j + 1)
           [] ts[j] \in DOMAIN NumLit -> Parsed(Num(NumLit[ts[j]]), j + 1)
           [] ts[j] \in StrLits -> Parsed(Str(Unquote[ts[j]]), j + 1)
           [] OTHER -> Fail

\* "key": value pairs from position i (a key is due), into the object acc;
\* a repeated key keeps its last value
ParseMembers(ts, i, acc) ==
    LET j == SkipWs(ts, i) IN
    IF j > Len(ts) \/ ts[j] \notin StrLits THEN Fail
    ELSE LET key == Unquote[ts[j]]
             c == SkipWs(ts, j + 1)
         IN  IF c > Len(ts) \/ ts[c] # ":" THEN Fail
             ELSE LET r == ParseValue(ts, c + 1) IN
                  IF ~r.ok THEN Fail
                  ELSE LET acc2 == (key :> r.val) @@ acc
                           e == SkipWs(ts, r.next)
                       IN  IF e > Len(ts) THEN Fail
                           ELSE IF ts[e] = "}" THEN Parsed(Dict(acc2), e + 1)
                           ELSE IF ts[e] = "," THEN ParseMembers(ts, e + 1, acc2)
                           ELSE Fail

\* array elements from position i (an element is due), after the elements acc
ParseElements(ts, i, acc) ==
    LET r == ParseValue(ts, i) IN
    IF ~r.ok THEN Fail
    ELSE LET e == SkipWs(ts, r.next) IN
         IF e > Len(ts) THEN Fail
         ELSE IF ts[e] = "]" THEN Parsed(List(Append(acc, r.val)), e + 1)
         ELSE IF ts[e] = "," THEN ParseElements(ts, e + 1, Append(acc, r.val))
         ELSE Fail

\* json.loads(text): ok = FALSE stands for JSONDecodeError
json_loads(text) ==
    LET r == ParseValue(text, 1) IN
    IF r.ok /\ SkipWs(text, r.next) > Len(text) THEN r ELSE Fail

(***************************************************************************)
(* /analyze  (analyze_prescription)                                        *)
(***************************************************************************)
\* the readings of datetime.utcnow()
Clock == 1 .. MaxClock

\* datetime.isoformat() of the instant n
Isoformat(n) == [t |-> "isotime", v |-> n]

ModelVersion == Str("gemini-1.5-flash")

\* d[k] = x
SetItem(d, k, x) == Dict((k :> x) @@ d.v)

\* round(x, 2): the multiples of 0.01 nearest to x.  Which of the two a tie
\* goes to depends on the binary value of the float, which the fixed-point
\* number does not hold: both are possible.
Round2(x) ==
    LET q == Unit \div 100
        lo == (x \div q) * q
        hi == lo + q
    IN  IF x - lo < hi - x THEN {lo}
        ELSE IF x - lo > hi - x THEN {hi}
        ELSE {lo, hi}

\* Accuracy with the default 1.0 for 0.0
AccuracyDefaultOne(result) == GetDefault(result, "confidence_score", Num(Unit))

\* accuracy = result.get('confidence_score', 0.0)
Accuracy(result) == GetDefault(result, "confidence_score", Num(0))

\* WithAccuracy as result.setdefault('accuracy_percentage', a)
WithAccuracyIfAbsent(result, a) ==
    IF "accuracy_percentage" \in DOMAIN result.v THEN result
    ELSE SetItem(result, "accuracy_percentage", Num(a))

\* result['accuracy_percentage'] = a
WithAccuracy(result, a) == SetItem(result, "accuracy_percentage", Num(a))

\* result['analyzed_at'] = ...; result['model_version'] = ...
WithMetadata(result, now) ==
    SetItem(SetItem(result, "analyzed_at", Isoformat(now)), "model_version", ModelVersion)

\* GenericError without the details field
GenericErrorBare(e) ==
    [status |-> 500, body |-> [error |-> "Failed to analyze prescription"]]

\* the handler of `except Exception`
GenericError(e) ==
    [status |-> 500,
     body |-> [error |-> "Failed to analyze prescription", details |-> e]]

\* the handler of `except json.JSONDecodeError`
ParseError(response_text) ==
    [status |-> 500,
     body |-> [error |-> "Failed to parse response", details |-> "JSONDecodeError",
               raw_response |-> response_text]]

\* the early return when the form has no image field
NoImage == [status |-> 400, body |-> [error |-> "No image file provided"]]

\* the responses of POST /analyze: f tells what request.files holds, up what
\* the model call did, now the clock reading
AnalyzeResponses(f, up, now) ==
    IF f = "none" THEN {NoImage}
    ELSE IF f = "corrupt" THEN {GenericError("UnidentifiedImageError")}
    ELSE IF ~up.ok THEN {GenericError("UpstreamError")}
    ELSE LET response_text == StripFences(up.text)
             parsed == json_loads(response_text)
         IN  IF ~parsed.ok THEN {ParseError(response_text)}
             ELSE IF parsed.val.t # "dict" THEN {GenericError("TypeError")}
             ELSE LET result == WithMetadata(parsed.val, now)
                      accuracy == Accuracy(result)
                  IN  IF accuracy.t # "num" THEN {GenericError("TypeError")}
                      ELSE {[status |-> 200, body |-> WithAccuracy(result, a).v] :
                                a \in Round2(accuracy.v * 100)}

(***************************************************************************)
(* /health  (health_check)                                                 *)
(***************************************************************************)
HealthResponse(now) ==
    [status |-> 200,
     body |-> [status |-> "healthy", timestamp |-> Isoformat(now),
               model |-> "gemini-1.5-flash"]]

(***************************************************************************)
(* The inputs: what the extraction model may answer, what a client may     *)
(* post to /validate.                                                      *)
(***************************************************************************)
KeyOrder ==
    <<"patient_name", "doctor_name", "medications", "confidence_score",
      "accuracy_percentage", "model_version", "analyzed_at">>

RECURSIVE Ser(_)
RECURSIVE SerElements(_)
RECURSIVE SerMembers(_, _)

\* the JSON text of the value x
Ser(x) ==
    CASE x.t = "null" -> <<"null">>
      [] x.t = "num" -> <<CHOOSE l \in DOMAIN NumLit : NumLit[l] = x.v>>
      [] x.t = "str" -> <<Quote(x.v)>>
      [] x.t = "list" -> <<"[">> \o SerElements(x.v) \o <<"]">>
      [] x.t = "dict" ->
           <<"{">>
           \o SerMembers(SelectSeq(KeyOrder, LAMBDA k : k \in DOMAIN x.v), x.v)
           \o <<"}">>

SerElements(xs) ==
    IF xs = <<>> THEN <<>>
    ELSE Ser(Head(xs)) \o (IF Len(xs) > 1 THEN <<",", " ">> ELSE <<>>)
         \o SerElements(Tail(xs))

SerMembers(keys, f) ==
    IF keys = <<>> THEN <<>>
    ELSE <<Quote(Head(keys)), ":", " ">> \o Ser(f[Head(keys)])
         \o (IF Len(keys) > 1 THEN <<",", " ">> ELSE <<>>)
         \o SerMembers(Tail(keys), f)

\* confidence_score as the model may give it: in range, out of range, ill-typed
PayloadScores ==
    {Missing, Num(0), Num(12345), Num(50 * (Unit \div 100)), Num(85 * (Unit \div 100)),
     Num(99995), Num(Unit), Num(150 * (Unit \div 100)), Num((0 - 20) * (Unit \div 100)),
     None, Str("high")}

\* the objects the model may answer
PayloadObjects ==
    {MakeDict([patient_name |-> pm.p, medications |-> pm.m, confidence_score |-> c,
               accuracy_percentage |-> sp.a, model_version |-> sp.m,
               analyzed_at |-> sp.m]) :
        pm \in {[p |-> Missing, m |-> Missing], [p |-> Str(""), m |-> List(<<>>)]},
        c \in PayloadScores,
        sp \in {[a |-> Missing, m |-> Missing],
                [a |-> Num(9990 * (Unit \div 100)), m |-> Str("spoofed")]}}

\* JSON values that are not objects
NonObjects ==
    {List(<<>>), List(<<Dict(<<>>)>>), Num(50 * (Unit \div 100)), None, Str("high")}

\* text that is not JSON
InvalidTexts ==
    {<<"n", "o", "t", " ", "j", "s", "o", "n">>, <<>>, <<"{">>,
     <<"{", "}", " ", "x">>, <<"{", Quote("patient_name"), ":", Quote(""), ",", "}">>}

\* what the model may answer: the text, and the JSON value it is the text of
\* (Missing when it is not JSON)
Payloads ==
    {[value |-> x, text |-> Ser(x)] : x \in PayloadObjects \cup NonObjects}
    \cup {[value |-> Missing, text |-> t] : t \in InvalidTexts}

RECURSIVE SeqsUpTo(_, _)
SeqsUpTo(S, n) ==
    IF n = 0 THEN {<<>>}
    ELSE LET shorter == SeqsUpTo(S, n - 1) IN
         shorter \cup {Append(q, c) : q \in shorter, c \in S}

\* whitespace before the answer, and after it
Pads == SeqsUpTo({" ", "\n"}, MaxPad)
TrailPads == {<<>>, <<"\n">>, <<" ", "\n">>}

\* the marks the model may put before and after its answer, and the line
\* break it may put between a mark and the answer
OpenMarks == {<<>>, Fence, FenceJson}
CloseMarks == {<<>>, Fence}
Breaks == {<<>>, <<"\n">>}

\* the model call: not made, failed, or answered text (the payload p.text in
\* some wrapping; p.value is the value the payload denotes)
NotCalled ==
    [called |-> FALSE, ok |-> FALSE, text |-> <<>>, payload |-> <<>>, value |-> Missing]
Failed ==
    [called |-> TRUE, ok |-> FALSE, text |-> <<>>, payload |-> <<>>, value |-> Missing]
Answer(text, p) ==
    [called |-> TRUE, ok |-> TRUE, text |-> text, payload |-> p.text, value |-> p.value]

\* the medication entries a client may post
MedEntries ==
    {MakeDict([name |-> n, dosage |-> d]) :
        n \in {Missing, Str(""), Str("Amoxicillin")}, d \in {Str(""), Str("500mg")}}
    \cup {MakeDict([name |-> Str("Amoxicillin"), dosage |-> Missing]),
          MakeDict([name |-> None, dosage |-> Str("")]),
          Str("Amoxicillin")}

\* the field values a client may post to /validate
PostedPatients == {Missing, Str(""), Str("Jane")}
PostedDoctors == {None, Str(""), Str("Dr. X")}
PostedMedications ==
    {Missing, None, Num(5 * Unit), Str("Amoxicillin")}
    \cup {List(ms) : ms \in SeqsUpTo(MedEntries, MaxMeds)}
PostedScores ==
    {Missing, None, Str("high"), Num(50 * (Unit \div 100)), Num(85 * (Unit \div 100)),
     Num(90 * (Unit \div 100))}

(***************************************************************************)
(* The server                                                              *)
(***************************************************************************)
NoResponse == [status |-> 0, body |-> <<>>]

Init ==
    /\ pc = "idle"
    /\ endpoint = "none"
    /\ files = "none"
    /\ upstream = NotCalled
    /\ data = None
    /\ response = NoResponse

\* GET /health
health_check ==
    /\ pc = "idle"
    /\ \E now \in Clock : response' = HealthResponse(now)
    /\ endpoint' = "health"
    /\ pc' = "responded"
    /\ UNCHANGED <<files, upstream, data>>

\* POST /analyze with request.files as f tells, the model call doing up
Analyze(f, up) ==
    /\ files' = f
    /\ upstream' = up
    /\ \E now \in Clock : response' \in AnalyzeResponses(f, up, now)

analyze_prescription ==
    /\ pc = "idle"
    /\ \/ \E f \in {"none", "corrupt"} : Analyze(f, NotCalled)
       \/ Analyze("ok", Failed)
       \/ \E p \in Payloads, lead \in Pads, open \in OpenMarks, in1 \in Breaks,
             in2 \in Breaks, close \in CloseMarks, trail \in TrailPads :
             Analyze("ok",
                     Answer(lead \o open \o in1 \o p.text \o in2 \o close \o trail, p))
    /\ endpoint' = "analyze"
    /\ pc' = "responded"
    /\ UNCHANGED data

\* POST /validate
validate_prescription ==
    /\ pc = "idle"
    /\ \E p \in PostedPatients, d \in PostedDoctors, m \in PostedMedications,
          c \in PostedScores :
          LET body == MakeDict([patient_name |-> p, doctor_name |-> d,
                                medications |-> m, confidence_score |-> c])
          IN  /\ data' = body
              /\ response' = ValidateResponse(body)
    /\ endpoint' = "validate"
    /\ pc' = "responded"
    /\ UNCHANGED <<files, upstream>>

\* the response is sent; nothing of the request is kept
Respond ==
    /\ pc = "responded"
    /\ pc' = "idle"
    /\ endpoint' = "none"
    /\ files' = "none"
    /\ upstream' = NotCalled
    /\ data' = None
    /\ response' = NoResponse

Next == health_check \/ analyze_prescription \/ validate_prescription \/ Respond

Spec == Init /\ [][Next]_vars

(***************************************************************************)
(* Properties                                                              *)
(***************************************************************************)
Validated == pc = "responded" /\ endpoint = "validate"
Analyzed == pc = "responded" /\ endpoint = "analyze"
Has(d, k) == k \in DOMAIN d.v

\* the field k of d is a non-empty string
NonEmptyStr(d, k) == Has(d, k) /\ d.v[k].t = "str" /\ d.v[k].v # ""

\* C1: in every ValidationResult that /validate returns, is_valid is false
\* exactly when errors is non-empty, whatever warnings holds.
ValidIffNoErrors ==
    Validated /\ response.status = 200
    => (response.body.is_valid = FALSE <=> response.body.errors # <<>>)

\* a result with errors and warnings, and is_valid false
InvalidWithErrorsAndWarnings ==
    /\ Validated /\ response.status = 200
    /\ response.body.is_valid = FALSE
    /\ response.body.errors # <<>>
    /\ response.body.warnings # <<>>

\* C2: /validate answers 200 to every JSON object, whatever value a field
\* holds (null included).
ValidateIsTotal == Validated => response.status = 200

\* medications is [] or absent
EmptyMedications(d) == ~Has(d, "medications") \/ d.v["medications"] = List(<<>>)

\* confidence_score is a number or absent, as a record has it
ScoreIsNumber(d) == ~Has(d, "confidence_score") \/ d.v["confidence_score"].t = "num"

\* C3: a record whose medications is empty or absent is answered with
\* is_valid false and the one error 'No medications found', whatever its
\* patient_name, doctor_name and confidence_score are.
EmptyMedicationsOneError ==
    Validated /\ EmptyMedications(data) /\ ScoreIsNumber(data)
    => /\ response.status = 200
       /\ response.body.is_valid = FALSE
       /\ response.body.errors = <<"No medications found">>

\* medications [] was posted and the one error came back
EmptyListRejected ==
    /\ Validated /\ Has(data, "medications")
    /\ data.v["medications"] = List(<<>>)
    /\ response.status = 200
    /\ response.body.errors = <<"No medications found">>

\* every medication of the list has a name and a dosage, both names are
\* given and the confidence is at least 0.85
Complete(d) ==
    /\ NonEmptyStr(d, "patient_name") /\ NonEmptyStr(d, "doctor_name")
    /\ Has(d, "medications") /\ d.v["medications"].t = "list"
    /\ \A i \in 1 .. Len(d.v["medications"].v) :
          LET med == d.v["medications"].v[i] IN
          med.t = "dict" /\ NonEmptyStr(med, "name") /\ NonEmptyStr(med, "dosage")
    /\ Has(d, "confidence_score") /\ d.v["confidence_score"].t = "num"
    /\ d.v["confidence_score"].v >= LowConfidence

\* C4 as claimed: every complete record, of any number of medications, is
\* answered with is_valid true and no warnings.
CompleteIsValid ==
    Validated /\ Complete(data)
    => /\ response.status = 200
       /\ response.body.is_valid = TRUE
       /\ response.body.warnings = <<>>

\* C4 as amended: a complete record is answered with no warnings, and with
\* is_valid true exactly when it has at least one medication; with none it
\* gets the error 'No medications found'.
CompleteNonEmptyIsValid ==
    Validated /\ Complete(data)
    => /\ response.status = 200
       /\ response.body.warnings = <<>>
       /\ IF Len(data.v["medications"].v) > 0
          THEN response.body.is_valid = TRUE /\ response.body.errors = <<>>
          ELSE /\ response.body.is_valid = FALSE
               /\ response.body.errors = <<"No medications found">>

\* a complete record of two medications was accepted
CompletePairAccepted ==
    /\ Validated /\ Complete(data)
    /\ Len(data.v["medications"].v) >= 2
    /\ response.body.is_valid = TRUE

\* the response b without analyzed_at
IgnoreTime(b) == [k \in DOMAIN b \ {"analyzed_at"} |-> b[k]]

\* C5: whatever fence marks and whitespace wrap the model's answer, the text
\* that is parsed is the trimmed answer, and the response is the one the
\* bare answer gets, analyzed_at aside.
FenceTransparent ==
    Analyzed /\ upstream.ok
    => /\ StripFences(upstream.text) = Strip(upstream.payload)
       /\ \E r \in AnalyzeResponses(files, [upstream EXCEPT !.text = upstream.payload],
                                    CHOOSE n \in Clock : TRUE) :
             /\ r.status = response.status
             /\ IgnoreTime(r.body) = IgnoreTime(response.body)

\* an answer in a json fence with whitespace around it became a record
FencedAnswerAccepted ==
    /\ Analyzed /\ upstream.ok
    /\ StartsWith(upstream.text, <<" ">> \o FenceJson \o <<"\n">>)
    /\ EndsWith(upstream.text, <<"\n">> \o Fence \o <<" ", "\n">>)
    /\ response.status = 200

\* the object the model answered (the answer is one)
AnsweredObject == upstream.value

\* C6: in a record /analyze returns for a confidence_score c in [0,1],
\* accuracy_percentage is c * 100 rounded to a multiple of 0.01, whatever
\* accuracy_percentage the answer itself carried.
AccuracyIsRoundedScore ==
    Analyzed /\ response.status = 200 /\ Has(AnsweredObject, "confidence_score")
    => LET c == AnsweredObject.v["confidence_score"].v
           a == response.body["accuracy_percentage"]
           q == Unit \div 100
       IN  0 <= c /\ c <= Unit
           => /\ a.t = "num"
              /\ a.v % q = 0
              /\ 2 * (a.v - 100 * c) <= q
              /\ 2 * (100 * c - a.v) <= q

\* the answer carried its own accuracy_percentage and a score that needs
\* rounding, and the record has the recomputed one
SpoofedAccuracyReplaced ==
    /\ Analyzed /\ response.status = 200
    /\ Has(AnsweredObject, "accuracy_percentage")
    /\ Has(AnsweredObject, "confidence_score")
    /\ AnsweredObject.v["confidence_score"] = Num(12345)
    /\ response.body["accuracy_percentage"] # AnsweredObject.v["accuracy_percentage"]

\* C7: when the trimmed, fence-stripped answer is not a JSON object, the
\* response is the 500 with error, details and raw_response, and
\* raw_response is that text.
MalformedKeepsRawText ==
    Analyzed /\ upstream.ok /\ upstream.value.t # "dict"
    => /\ response.status = 500
       /\ {"error", "details", "raw_response"} \subseteq DOMAIN response.body
       /\ response.body.raw_response = StripFences(upstream.text)

RecordFields ==
    {"patient_name", "doctor_name", "date", "medications", "special_instructions",
     "warnings", "verification_status", "confidence_score", "analyzed_at",
     "model_version", "accuracy_percentage"}

NormalizerFields == {"analyzed_at", "model_version", "accuracy_percentage"}

\* c * 100 rounded to a multiple of 0.01 is a
RoundedPercent(c, a) ==
    LET q == Unit \div 100 IN
    a % q = 0 /\ 2 * (a - 100 * c) <= q /\ 2 * (100 * c - a) <= q

\* C8 as claimed: a returned record has every PrescriptionRecord field, and
\* its confidence_score is 0.0 when the answer had none or one outside [0,1].
NormalizedRecordComplete ==
    Analyzed /\ response.status = 200
    => /\ RecordFields \subseteq DOMAIN response.body
       /\ (~Has(AnsweredObject, "confidence_score")
           \/ AnsweredObject.v["confidence_score"].v < 0
           \/ AnsweredObject.v["confidence_score"].v > Unit)
          => response.body["confidence_score"] = Num(0)

\* C8 as amended: a returned record has the fields of the answer and the
\* three fields the handler sets, no others; the answer's fields keep their
\* values (confidence_score too, in range or not); accuracy_percentage is
\* computed from confidence_score, and from 0.0 when the answer has none.
NormalizedRecordIsAnswerPlusMetadata ==
    Analyzed /\ response.status = 200
    => LET obj == AnsweredObject.v
           body == response.body
       IN  /\ DOMAIN body = DOMAIN obj \cup NormalizerFields
           /\ \A k \in DOMAIN obj \ NormalizerFields : body[k] = obj[k]
           /\ body["model_version"] = ModelVersion
           /\ body["analyzed_at"] \in {Isoformat(n) : n \in Clock}
           /\ body["accuracy_percentage"].t = "num"
           /\ RoundedPercent(IF "confidence_score" \in DOMAIN obj
                             THEN obj["confidence_score"].v ELSE 0,
                             body["accuracy_percentage"].v)

\* an answer with only patient_name and medications became a record
PartialAnswerAccepted ==
    /\ Analyzed /\ response.status = 200
    /\ DOMAIN AnsweredObject.v = {"patient_name", "medications"}
    /\ "confidence_score" \notin DOMAIN response.body
    /\ response.body["accuracy_percentage"] = Num(0)

\* C9 as claimed: every error response has an error and a details field.
ErrorResponsesHaveDetails ==
    pc = "responded" /\ response.status >= 400
    => {"error", "details"} \subseteq DOMAIN response.body

\* C9 as amended: every 500 response has an error and a details field; the
\* 400 of /analyze for a missing image has the error field alone.
ServerErrorsHaveDetails ==
    pc = "responded" /\ response.status >= 400
    => IF response.status = 500
       THEN {"error", "details"} \subseteq DOMAIN response.body
       ELSE /\ response.status = 400
            /\ endpoint = "analyze" /\ files = "none"
            /\ DOMAIN response.body = {"error"}

\* /analyze answered with the 500 of its generic handler
GenericFailureAnswered ==
    /\ Analyzed /\ response.status = 500
    /\ "raw_response" \notin DOMAIN response.body

\* the name the claim puts into a dosage warning: the medication's name, and
\* 'unknown medication' when the name is empty or absent (a name that is not
\* a string is rendered as the code renders it; the claim is silent on it)
ClaimedDosageName(med) ==
    IF ~Has(med, "name") \/ med.v["name"] = Str("") THEN "unknown medication"
    ELSE Format(med.v["name"])

RECURSIVE ClaimedDosageWarnings(_)
ClaimedDosageWarnings(meds) ==
    IF meds = <<>> THEN <<>>
    ELSE (IF ~Truthy(Get(Head(meds), "dosage"))
          THEN <<"Dosage missing for " \o ClaimedDosageName(Head(meds))>>
          ELSE <<>>)
         \o ClaimedDosageWarnings(Tail(meds))

\* the warnings the claim lists for the record d
ClaimedWarnings(d) ==
    (IF ~Truthy(Get(d, "patient_name")) THEN <<"Patient name is missing">> ELSE <<>>)
    \o (IF ~Truthy(Get(d, "doctor_name")) THEN <<"Doctor name is missing">> ELSE <<>>)
    \o ClaimedDosageWarnings(GetDefault(d, "medications", List(<<>>)).v)
    \o (IF GetDefault(d, "confidence_score", Num(0)).v < LowConfidence
        THEN <<"Low confidence score - manual review recommended">>
        ELSE <<>>)

\* C10: the warnings of a result are, in this order, the patient name
\* warning, the doctor name warning, one dosage warning per medication with
\* an empty dosage (naming it, or 'unknown medication' when its name is
\* empty or absent), and the low confidence warning, errors or not.
WarningsAsClaimed ==
    Validated /\ response.status = 200
    => response.body.warnings = ClaimedWarnings(data)

====
